---------------------------- MODULE Spec2Model ----------------------------
(***************************************************************************)
(* OpenSlots: the symbol-matching model, the virtual-reel window model,    *)
(* the win-rule evaluators and the payback calculators of                  *)
(* openslots/core.py and openslots/utils.py.                               *)
(*                                                                         *)
(* The methods of Symbol, Reel and the rules are pure functions of the     *)
(* receiver object and of their arguments.  A state of the model is one    *)
(* object after construction (obj) and, once a method has been applied to  *)
(* it, the method's name (op), its arguments (args) and what the call      *)
(* produced (ret).  A Game and an RNG have state of their own: the values  *)
(* of the SAS meters (meters), the frames of the calls in progress         *)
(* (frames), the attributes of the RNG (rng) and the threads started by    *)
(* RNG.cycle (threads).                                                    *)
(*                                                                         *)
(* Python values:                                                          *)
(*   - a list is a sequence; Python index i is TLA+ index i + 1;           *)
(*   - wild_excludes is only ever tested with `in`, so it is a set of      *)
(*     names; that it is a Python list matters to hash() only, which is    *)
(*     modelled by Symbol_hash;                                            *)
(*   - the outcome of a call is a record [tag, val]: tag "ok" with the     *)
(*     returned value, tag "None" for a call that falls off the end of     *)
(*     the function, or the name of the exception the call raises;         *)
(*   - a float produced by a division is the exact rational [num, den].    *)
(***************************************************************************)
EXTENDS Integers, Sequences, FiniteSets, TLC

VARIABLES obj, op, args, ret, meters, frames, rng, threads

vars == <<obj, op, args, ret, meters, frames, rng, threads>>

(***************************************************************************)
(* Bounds of the model.                                                    *)
(***************************************************************************)
NumNames == 3        \* symbol names used to build arbitrary Symbols
MaxReelLen == 4      \* longest reel strip
MaxWindow == 3       \* largest window of a Reel
WindowRows == 2      \* rows of a window
NumLines == 3        \* paylines of a LinePay rule
MaxLine == 5         \* longest line given to a LeftPay rule
NumLineSymbols == 6  \* symbols that appear on the lines of the Atkins game
MaxPaybackReels == 2 \* reels handed to a payback method
MaxPaybackLen == 3   \* longest strip handed to a payback method
MaxPaybackWindow == 2 \* largest window of a reel handed to a payback method
RandomRes == 4       \* values the generator's random() can return
MaxBet == 2          \* largest line bet of a spin, the smallest being 1
MaxCredits == 2      \* add_credits is called while credits are below this
MaxCoinIn == 2       \* spin is called while coin_in is below this
SpinLen == 2         \* longest strip of the games whose first spin is looked at
NumSpinners == 2     \* threads that call spin on one Game at the same time
MaxThreads == 3      \* threads one RNG starts in all
MaxSamples == 2      \* largest n of chi_square
MaxCategories == 2   \* largest k of chi_square

(***************************************************************************)
(* Call outcomes.                                                          *)
(***************************************************************************)
Ok(v) == [tag |-> "ok", val |-> v]

Raise(e) == [tag |-> e, val |-> 0]

PyNone == [tag |-> "None", val |-> 0]

NoCall == [tag |-> "nocall", val |-> 0]

Min(x, y) == IF x < y THEN x ELSE y

Max(x, y) == IF x < y THEN y ELSE x

\* s[lo:hi] of Python for 0 <= lo and 0 <= hi: both ends are clamped to len(s)
PySlice(s, lo, hi) == SubSeq(s, Min(lo, Len(s)) + 1, Min(hi, Len(s)))

(***************************************************************************)
(* Symbol                                                                  *)
(***************************************************************************)
NameTable ==
    <<"Atkins", "Steak", "Scale", "Eggs", "Butter", "Wings",
      "Ham", "Sausage", "Cheese", "Bacon", "Mayo">>

Names == {NameTable[i] : i \in 1..NumNames}

\* Symbol.__init__: name, wild flag, wild_excludes
Symbol(name, wild, wild_excludes) ==
    [name |-> name, wild |-> wild, wild_excludes |-> wild_excludes]

\* every Symbol that can be built from the names
AllSymbols ==
    {Symbol(n, w, x) : n \in Names, w \in BOOLEAN, x \in SUBSET Names}

\* the elif at line 27 dropped: only the receiver's wild flag is consulted
Symbol_eq_OneSided(self, other) ==
    IF self.wild /\ other.name \notin self.wild_excludes THEN TRUE
    ELSE IF self.name = other.name THEN TRUE
    ELSE FALSE

\* Symbol.__eq__
Symbol_eq(self, other) ==
    IF self.wild /\ other.name \notin self.wild_excludes THEN TRUE
    ELSE IF other.wild /\ self.name \notin other.wild_excludes THEN TRUE
    ELSE IF self.name = other.name THEN TRUE
    ELSE FALSE

\* the symbols of the Atkins test, in the order the bounds take them
atkins == Symbol("Atkins", TRUE, {"Scale"})
steak == Symbol("Steak", FALSE, {})
scale == Symbol("Scale", FALSE, {})
eggs == Symbol("Eggs", FALSE, {})
butter == Symbol("Butter", FALSE, {})
wings == Symbol("Wings", FALSE, {})
ham == Symbol("Ham", FALSE, {})
sausage == Symbol("Sausage", FALSE, {})
cheese == Symbol("Cheese", FALSE, {})
bacon == Symbol("Bacon", FALSE, {})
mayo == Symbol("Mayo", FALSE, {})

SymbolTable ==
    <<atkins, steak, scale, eggs, butter, wings,
      ham, sausage, cheese, bacon, mayo>>

\* the symbols that appear on reels, windows and lines: a wild, a symbol it
\* stands in for and the symbol it excludes
Symbols == {atkins, steak, scale}

(***************************************************************************)
(* Reel                                                                    *)
(***************************************************************************)
\* Reel.__init__: the strip and the window size
Reel(symbols, window) == [class |-> "Reel", symbols |-> symbols, window |-> window]

Strips == UNION {[1..n -> Symbols] : n \in 1..MaxReelLen}

Reels == {Reel(s, w) : s \in Strips, w \in 1..MaxWindow}

\* the wrap-around branch dropped: the slice is cut at the end of the strip
Reel_slice_NoWrap(self, stop) ==
    LET n == Len(self.symbols) IN
    IF ~(n > stop /\ stop >= 0) THEN Raise("AssertionError")
    ELSE Ok(PySlice(self.symbols, stop, stop + self.window))

\* Reel.slice
Reel_slice(self, stop) ==
    LET n == Len(self.symbols) IN
    IF ~(n > stop /\ stop >= 0) THEN Raise("AssertionError")
    ELSE IF stop + self.window > n
         THEN Ok(PySlice(self.symbols, stop, n)
                 \o PySlice(self.symbols, 0, stop + self.window - n))
         ELSE Ok(PySlice(self.symbols, stop, stop + self.window))

(***************************************************************************)
(* GameRule and its evaluators                                             *)
(***************************************************************************)
\* list[i] of Python: a negative index counts from the end
PyIndex(list, i) ==
    IF 0 <= i /\ i < Len(list) THEN Ok(list[i + 1])
    ELSE IF i < 0 /\ -i <= Len(list) THEN Ok(list[Len(list) + i + 1])
    ELSE Raise("IndexError")

\* a pay schedule of k entries: 0, 5, 25, 125, ...
PaySchedule(k) == [i \in 1..k |-> IF i = 1 THEN 0 ELSE 5 ^ (i - 1)]

\* the game of test.py has three reels
NumReels == 3

\* GameRule.__init__ (LinePay.__init__ adds paylines)
GameRule(class, symbol, n, pays, paylines) ==
    [class |-> class, symbol |-> symbol, n |-> n, pays |-> pays,
     paylines |-> paylines]

\* payline k: the row read on each reel; the first WindowRows lines are the
\* straight rows, the following ones zigzag
Payline(k) ==
    [i \in 1..NumReels |->
        ((k - 1) + (IF k > WindowRows THEN i ELSE 0)) % WindowRows]

Paylines == [k \in 1..NumLines |-> Payline(k)]

\* a window: one slice of WindowRows symbols per reel
Windows == [1..NumReels -> [1..WindowRows -> Symbols]]

\* number of sym in seq with sym == symbol
RECURSIVE CountMatches(_, _)
CountMatches(seq, symbol) ==
    IF seq = <<>> THEN 0
    ELSE (IF Symbol_eq(Head(seq), symbol) THEN 1 ELSE 0)
         + CountMatches(Tail(seq), symbol)

\* number of leading sym of seq with sym == symbol, up to the first break
RECURSIVE LeadingMatches(_, _)
LeadingMatches(seq, symbol) ==
    IF seq = <<>> THEN 0
    ELSE IF Symbol_eq(Head(seq), symbol)
         THEN 1 + LeadingMatches(Tail(seq), symbol)
         ELSE 0

\* the loops of ScatterPay.__call__: n after the reels from i on
RECURSIVE ScatterCount(_, _, _)
ScatterCount(window, symbol, i) ==
    IF i > Len(window) THEN 0
    ELSE CountMatches(window[i], symbol) + ScatterCount(window, symbol, i + 1)

\* a reel counts once however many of its symbols match
RECURSIVE ScatterCountReels(_, _, _)
ScatterCountReels(window, symbol, i) ==
    IF i > Len(window) THEN 0
    ELSE (IF CountMatches(window[i], symbol) > 0 THEN 1 ELSE 0)
         + ScatterCountReels(window, symbol, i + 1)

ScatterPay_call_PerReel(self, window) ==
    LET n == ScatterCountReels(window, self.symbol, 1) IN
    IF n > 0 THEN PyIndex(self.pays, n - 1) ELSE Ok(0)

\* ScatterPay.__call__
ScatterPay_call(self, window) ==
    LET n == ScatterCount(window, self.symbol, 1) IN
    IF n > 0 THEN PyIndex(self.pays, n - 1) ELSE Ok(0)

\* the symbols window[i][j] along a payline
LineSymbols(window, line) == [i \in 1..Len(line) |-> window[i][line[i] + 1]]

\* only the best line is kept instead of the sum
RECURSIVE LinePay_loop_Highest(_, _, _, _, _)
LinePay_loop_Highest(self, window, lines, k, win) ==
    IF k > Len(lines) THEN Ok(win)
    ELSE LET n == LeadingMatches(LineSymbols(window, lines[k]), self.symbol)
             p == PyIndex(self.pays, n - 1)
         IN  IF n = 0 THEN LinePay_loop_Highest(self, window, lines, k + 1, win)
             ELSE IF p.tag # "ok" THEN p
             ELSE LinePay_loop_Highest(self, window, lines, k + 1,
                                       Max(win, p.val))

LinePay_call_Highest(self, window, active) ==
    LinePay_loop_Highest(self, window, PySlice(self.paylines, 0, active), 1, 0)

\* the for loop of LinePay.__call__ from line k on, win so far
RECURSIVE LinePay_loop(_, _, _, _, _)
LinePay_loop(self, window, lines, k, win) ==
    IF k > Len(lines) THEN Ok(win)
    ELSE LET n == LeadingMatches(LineSymbols(window, lines[k]), self.symbol)
             p == PyIndex(self.pays, n - 1)
         IN  IF n = 0 THEN LinePay_loop(self, window, lines, k + 1, win)
             ELSE IF p.tag # "ok" THEN p
             ELSE LinePay_loop(self, window, lines, k + 1, win + p.val)

\* LinePay.__call__
LinePay_call(self, window, active) ==
    LinePay_loop(self, window, PySlice(self.paylines, 0, active), 1, 0)

\* the for loop of WinWays.__call__ from reel i on: <<n, mult>>
RECURSIVE WinWays_loop(_, _, _, _, _)
WinWays_loop(window, symbol, i, n, mult) ==
    IF i > Len(window) THEN <<n, mult>>
    ELSE LET in_reel == CountMatches(window[i], symbol) IN
         IF in_reel = 0 THEN <<n, mult>>
         ELSE WinWays_loop(window, symbol, i + 1, n + 1, mult * in_reel)

\* WinWays.__call__: nothing is returned when n = 0
WinWays_call(self, window) ==
    LET r == WinWays_loop(window, self.symbol, 1, 0, 1)
        n == r[1]
        mult == r[2]
        p == PyIndex(self.pays, n - 1)
    IN  IF n > 0
        THEN (IF p.tag # "ok" THEN p ELSE Ok(p.val * mult))
        ELSE PyNone

\* the for loop of LeftPay.__call__ from position k on: <<n, all_wilds>>
RECURSIVE LeftPay_loop(_, _, _, _, _)
LeftPay_loop(line, symbol, k, n, all_wilds) ==
    IF k > Len(line) THEN <<n, all_wilds>>
    ELSE IF Symbol_eq(line[k], symbol)
         THEN LeftPay_loop(line, symbol, k + 1, n + 1,
                           IF ~line[k].wild THEN FALSE ELSE all_wilds)
         ELSE <<n, all_wilds>>

\* the all_wilds test dropped
LeftPay_call_AnyRun(self, line) ==
    LET r == LeftPay_loop(line, self.symbol, 1, 0, TRUE) IN
    IF r[1] = self.n THEN Ok(self.pays) ELSE Ok(0)

\* LeftPay.__call__
LeftPay_call(self, line) ==
    LET r == LeftPay_loop(line, self.symbol, 1, 0, TRUE) IN
    IF r[1] = self.n /\ ~r[2] THEN Ok(self.pays) ELSE Ok(0)

(***************************************************************************)
(* The Atkins paytable of tests/test_GameRules.py and the highest-winner   *)
(* scan of calc_rtp                                                        *)
(***************************************************************************)
AtkinsReels == 5

\* for i, p in enumerate(pays): if p: rules.append(LeftPay(symbol, i+1, p))
RECURSIVE LinePays(_, _, _)
LinePays(symbol, pays, i) ==
    IF i > Len(pays) THEN <<>>
    ELSE (IF pays[i] # 0
          THEN <<GameRule("LeftPay", symbol, i, pays[i], <<>>)>>
          ELSE <<>>)
         \o LinePays(symbol, pays, i + 1)

\* the same with two symbols sharing the pays, appended in turn
RECURSIVE LinePays2(_, _, _, _)
LinePays2(symbol1, symbol2, pays, i) ==
    IF i > Len(pays) THEN <<>>
    ELSE (IF pays[i] # 0
          THEN <<GameRule("LeftPay", symbol1, i, pays[i], <<>>),
                 GameRule("LeftPay", symbol2, i, pays[i], <<>>)>>
          ELSE <<>>)
         \o LinePays2(symbol1, symbol2, pays, i + 1)

\* rules of the test
AtkinsRules ==
    LinePays(atkins, <<0, 5, 50, 500, 5000>>, 1)
    \o LinePays(steak, <<0, 3, 40, 200, 1000>>, 1)
    \o LinePays(ham, <<0, 2, 30, 150, 500>>, 1)
    \o LinePays(wings, <<0, 2, 25, 100, 300>>, 1)
    \o LinePays2(sausage, eggs, <<0, 0, 20, 75, 200>>, 1)
    \o LinePays2(butter, cheese, <<0, 0, 15, 50, 100>>, 1)
    \o LinePays2(bacon, mayo, <<0, 0, 10, 25, 50>>, 1)

\* the scan of the line rules in calc_rtp, from rule i on
RECURSIVE HighestWinner_loop(_, _, _, _, _)
HighestWinner_loop(line_rules, line, i, highest_winner, paid_rule) ==
    IF i > Len(line_rules)
    THEN [highest_winner |-> highest_winner, paid_rule |-> paid_rule]
    ELSE LET this_pay == LeftPay_call(line_rules[i], line).val IN
         IF this_pay > highest_winner
         THEN HighestWinner_loop(line_rules, line, i + 1, this_pay, i)
         ELSE HighestWinner_loop(line_rules, line, i + 1,
                                 highest_winner, paid_rule)

\* highest_winner = 0, paid_rule = None (0 here), then the scan
HighestWinner(line_rules, line) == HighestWinner_loop(line_rules, line, 1, 0, 0)

(***************************************************************************)
(* Payback calculators                                                     *)
(***************************************************************************)
\* a float: the exact quotient num / den
Rational(num, den) == [num |-> num, den |-> den]

\* "Number of this symbol on each reel", the freqs argument: the symbols
\* that are the target itself
SymbolFreqs(reels, symbol) ==
    [i \in 1..Len(reels) |->
        Cardinality({k \in 1..Len(reels[i].symbols) :
                        reels[i].symbols[k] = symbol})]

\* the same with the wilds that stand in for the target counted too
MatchFreqs(reels, symbol) ==
    [i \in 1..Len(reels) |-> CountMatches(reels[i].symbols, symbol)]

\* total_combos after the reels up to i
RECURSIVE TotalCombos(_, _)
TotalCombos(reels, i) ==
    IF i = 0 THEN 1 ELSE TotalCombos(reels, i - 1) * Len(reels[i].symbols)

\* winning_stops[j] and losing_stops[j] (j counted from 1)
WinningStops(freqs, reels, j) == freqs[j] * reels[j].window

LosingStops(freqs, reels, j) ==
    Len(reels[j].symbols) - WinningStops(freqs, reels, j)

\* i & 1<<j, j counted from 0
BitSet(i, j) == (i \div (2 ^ j)) % 2 = 1

\* mask.count('a') for the mask of i over n reels
RECURSIVE PopCount(_, _)
PopCount(i, n) ==
    IF n = 0 THEN 0
    ELSE PopCount(i, n - 1) + (IF BitSet(i, n - 1) THEN 1 ELSE 0)

\* reduce(mul, this_combo, 1) for the combination of mask i over reels 1..n
RECURSIVE ComboProduct(_, _, _, _)
ComboProduct(freqs, reels, i, n) ==
    IF n = 0 THEN 1
    ELSE ComboProduct(freqs, reels, i, n - 1)
         * (IF BitSet(i, n - 1) THEN WinningStops(freqs, reels, n)
            ELSE LosingStops(freqs, reels, n))

\* this_prob * total_combos of bucket c (c counted from 0): the masks from
\* i up to (1 << n) - 1 that have c + 1 winning reels
RECURSIVE BucketCombos(_, _, _, _)
BucketCombos(freqs, reels, c, i) ==
    IF i >= 2 ^ Len(reels) THEN 0
    ELSE (IF PopCount(i, Len(reels)) - 1 = c
          THEN ComboProduct(freqs, reels, i, Len(reels))
          ELSE 0)
         + BucketCombos(freqs, reels, c, i + 1)

\* payback * total_combos after the buckets up to c (c counted from 1)
RECURSIVE PaybackCombos(_, _, _, _)
PaybackCombos(self, freqs, reels, c) ==
    IF c = 0 THEN 0
    ELSE PaybackCombos(self, freqs, reels, c - 1)
         + BucketCombos(freqs, reels, c - 1, 1) * self.pays[c]

\* ScatterPay.payback
ScatterPay_payback(self, freqs, reels) ==
    LET n == Len(reels)
        total_combos == TotalCombos(reels, n)
    IN  IF Len(freqs) # Len(reels) THEN Raise("AssertionError")
        ELSE IF n > 0 /\ total_combos = 0 THEN Raise("ZeroDivisionError")
        ELSE IF n > Len(self.pays) THEN Raise("IndexError")
        ELSE IF n = 0 THEN Ok(Rational(0, 1))
        ELSE Ok(Rational(PaybackCombos(self, freqs, reels, n), total_combos))

\* win_odds * total_combos of LinePay.payback for i matches: the reels from
\* j on (j counted from 1), freqs[j] on the first i reels and the other
\* stops on the rest
RECURSIVE LinePay_win_odds(_, _, _, _)
LinePay_win_odds(freqs, reels, i, j) ==
    IF j > Len(reels) THEN 1
    ELSE (IF j <= i THEN freqs[j] ELSE Len(reels[j].symbols) - freqs[j])
         * LinePay_win_odds(freqs, reels, i, j + 1)

\* payback * total_combos after the first k pairs of
\* zip(range(n, 0, -1), self.pays[::-1]): pair k is (n - k + 1, the k-th
\* entry of pays from the end)
RECURSIVE LinePay_payback_loop(_, _, _, _)
LinePay_payback_loop(self, freqs, reels, k) ==
    IF k = 0 THEN 0
    ELSE LinePay_payback_loop(self, freqs, reels, k - 1)
         + LinePay_win_odds(freqs, reels, Len(reels) - k + 1, 1)
           * self.pays[Len(self.pays) - k + 1]

\* LinePay.payback: zip stops at the shorter of the two sequences
LinePay_payback(self, freqs, reels) ==
    LET n == Len(reels)
        total_combos == TotalCombos(reels, n)
        pairs == Min(n, Len(self.pays))
    IN  IF Len(freqs) # Len(reels) THEN Raise("AssertionError")
        ELSE IF pairs = 0 THEN Ok(Rational(0, 1))
        ELSE IF total_combos = 0 THEN Raise("ZeroDivisionError")
        ELSE Ok(Rational(LinePay_payback_loop(self, freqs, reels, pairs),
                         total_combos))

\* Symbol.__hash__: the tuple hashed holds wild_excludes, which is a list in
\* every construction (the default [] included), and a list is unhashable
Symbol_hash(self) == Raise("TypeError")

\* the symbols of the reels in the order the first loop visits them
RECURSIVE AllReelSymbols(_, _)
AllReelSymbols(reels, i) ==
    IF i > Len(reels) THEN <<>>
    ELSE reels[i].symbols \o AllReelSymbols(reels, i + 1)

\* LeftPay.payback, up to the statement that raises:
\*   line 235  `s in wilds` hashes the first symbol met;
\*   line 253  num_wilds[i] / len(r) for a reel without symbols;
\*   line 259  wild_probs[self.n] needs self.n < num_reels
\*             (wild_probs[k] is the chance of at least k + 1 wilds);
\*   line 266  r.count(...): a Reel has no count method.
\* No input gets past line 266, so the arithmetic after it has no outcome.
LeftPay_payback(self, reels) ==
    LET num_reels == Len(reels)
        visited == AllReelSymbols(reels, 1)
    IN  IF visited # <<>> /\ Symbol_hash(Head(visited)).tag # "ok"
        THEN Symbol_hash(Head(visited))
        ELSE IF num_reels > 0 THEN Raise("ZeroDivisionError")
        ELSE IF PyIndex([i \in 1..num_reels |-> 0], self.n).tag # "ok"
        THEN Raise("IndexError")
        ELSE Raise("AttributeError")

\* calc_rtp.  `s not in symbols_per_reel` (line 51) hashes the first symbol
\* of the first reel that has one, so only reels without symbols get past
\* the first loop.  Then itertools.product yields the empty line once when
\* there is no reel and no line when there is an empty reel; a paid line
\* adds prod([]) = 1 to its rule.  The value is Payback(rules, total_combos)
\* with rules the count of each paid rule, keyed by its place in line_rules.
calc_rtp(reels, rules) ==
    LET visited == AllReelSymbols(reels, 1)
        possible_lines == IF Len(reels) = 0 THEN {<<>>} ELSE {}
        paid == {HighestWinner(rules, line).paid_rule :
                    line \in possible_lines} \ {0}
        line_rule_pays ==
            [k \in paid |->
                Cardinality({line \in possible_lines :
                                HighestWinner(rules, line).paid_rule = k})]
    IN  IF visited # <<>> /\ Symbol_hash(Head(visited)).tag # "ok"
        THEN Symbol_hash(Head(visited))
        ELSE Ok([rules |-> line_rule_pays,
                 total_combos |-> TotalCombos(reels, Len(reels))])

(***************************************************************************)
(* SASMeter and SASGame (protocols/sas.py)                                 *)
(***************************************************************************)
\* the meters of the catalogue _602_meters that a Game adds to or clears
MeterNames == {"coin_in", "coin_out", "credits"}

\* the fifth field of a catalogue entry: only a "current" meter can be
\* decremented, and of the three that is "credits"
SASMeter_current(name) == name = "credits"

\* SASGame.__init__ / clear_meters without nvdir: every meter starts at 0
SASGame == [name \in MeterNames |-> 0]

\* `n if n > 0 else 0`
Positive(n) == IF n > 0 THEN n ELSE 0

\* SASMeter.__iadd__: self._value += n if n > 0 else 0, on the value loaded
SASMeter_iadd(value, n) == value + Positive(n)

\* SASMeter.__isub__, first statement: self._value -= n if n > 0 else 0
SASMeter_isub(name, value, n) ==
    IF SASMeter_current(name) THEN value - Positive(n) ELSE value

\* the clamp dropped: a debit larger than the balance stays negative
SASMeter_clamp_None(name, value) == value

\* SASMeter.__isub__, second statement: if self._value < 0: self._value = 0
SASMeter_clamp(name, value) ==
    IF SASMeter_current(name) /\ value < 0 THEN 0 ELSE value

\* SASMeter.clear: del self.value sets _value to 0
SASMeter_clear(value) == 0

(***************************************************************************)
(* RNG.randint and Game (core.py, utils.py)                                *)
(***************************************************************************)
\* SystemRandom.random() returns u / RandomRes for u in 0..RandomRes-1
\* (2^53 steps in CPython, RandomRes here)
Randoms == 0..(RandomRes - 1)

\* RNG.randint(a, b): math.floor((self._rng.random() * (b-a)) + a)
RNG_randint(u, a, b) == ((u * (b - a)) \div RandomRes) + a

\* Game.__init__
Game(reels, paytable) ==
    [class |-> "Game", reels |-> reels, paytable |-> paytable]

\* the frame of a call of Game.spin: the position in the code, the
\* arguments and the locals (tmp is the meter value a += or -= has loaded)
SpinFrame(pc, lines, line_bet, stops) ==
    [pc |-> pc, lines |-> lines, line_bet |-> line_bet, stops |-> stops,
     tmp |-> 0, window |-> <<>>, win |-> 0, exc |-> ""]

\* no call in progress
IdleFrame == SpinFrame("idle", 0, 0, <<>>)

\* the else branch taken always: the column is cut at the end of the strip
Game_spin_column_NoWrap(reel, stop) ==
    PySlice(reel.symbols, stop, stop + reel.window)

\* Game.spin, the body of the loop over the reels: this_r for the stop drawn
Game_spin_column(reel, stop) ==
    LET n == Len(reel.symbols)
        stopp == stop + reel.window
    IN  IF stopp > n
        THEN PySlice(reel.symbols, stop, n)
             \o PySlice(reel.symbols, 0, stopp - n)
        ELSE PySlice(reel.symbols, stop, stopp)

\* rule(window, lines): ScatterPay and WinWays ignore the extra argument,
\* LeftPay.__call__(self, line) does not take it
Rule_call(rule, window, lines) ==
    CASE rule.class = "ScatterPay" -> ScatterPay_call(rule, window)
      [] rule.class = "LinePay" -> LinePay_call(rule, window, lines)
      [] rule.class = "WinWays" -> WinWays_call(rule, window)
      [] OTHER -> Raise("TypeError")

\* Game.spin, the loop over the paytable from rule i on, win so far and
\* line_bet the factor of every rule's pay; a rule that returns None makes
\* None * line_bet raise TypeError
RECURSIVE Game_spin_loop(_, _, _, _, _, _)
Game_spin_loop(paytable, window, lines, line_bet, i, win) ==
    IF i > Len(paytable) THEN Ok(win)
    ELSE LET r == Rule_call(paytable[i], window, lines) IN
         IF r.tag = "None" THEN Raise("TypeError")
         ELSE IF r.tag # "ok" THEN r
         ELSE Game_spin_loop(paytable, window, lines, line_bet, i + 1,
                             win + r.val * line_bet)

\* the line bet left out of the sum
Game_spin_win_Unscaled(paytable, window, lines, line_bet) ==
    Game_spin_loop(paytable, window, lines, 1, 1, 0)

\* Game.spin: win = 0; for rule in self.paytable: win += ...
Game_spin_win(paytable, window, lines, line_bet) ==
    Game_spin_loop(paytable, window, lines, line_bet, 1, 0)

\* the positions of Game.spin at which it has left the code
SpinEnded == {"returned", "raised"}

\* Game.spin, one step of the call with frame f on the meters m.  A += or
\* -= on a meter loads _value, computes, and stores _value: the load and
\* the store are separate steps, and so is the clamp of __isub__.
Game_spin_step(self, f, m) ==
    LET wager == f.lines * f.line_bet IN
    CASE f.pc = "coin_in_load" ->
           [frame |-> [f EXCEPT !.pc = "coin_in_store", !.tmp = m.coin_in],
            meters |-> m]
      [] f.pc = "coin_in_store" ->
           [frame |-> [f EXCEPT !.pc = "debit_load"],
            meters |-> [m EXCEPT !.coin_in = SASMeter_iadd(f.tmp, wager)]]
      [] f.pc = "debit_load" ->
           [frame |-> [f EXCEPT !.pc = "debit_store", !.tmp = m.credits],
            meters |-> m]
      [] f.pc = "debit_store" ->
           [frame |-> [f EXCEPT !.pc = "debit_clamp"],
            meters |-> [m EXCEPT !.credits =
                            SASMeter_isub("credits", f.tmp, wager)]]
      [] f.pc = "debit_clamp" ->
           [frame |-> [f EXCEPT !.pc = "window"],
            meters |-> [m EXCEPT !.credits = SASMeter_clamp("credits", @)]]
      [] f.pc = "window" ->
           LET window == [i \in 1..Len(self.reels) |->
                             Game_spin_column(self.reels[i], f.stops[i])]
               win == Game_spin_win(self.paytable, window, f.lines,
                                    f.line_bet)
           IN  [frame |-> IF win.tag = "ok"
                          THEN [f EXCEPT !.pc = "coin_out_load",
                                         !.window = window, !.win = win.val]
                          ELSE [f EXCEPT !.pc = "raised",
                                         !.window = window, !.exc = win.tag],
                meters |-> m]
      [] f.pc = "coin_out_load" ->
           [frame |-> [f EXCEPT !.pc = "coin_out_store", !.tmp = m.coin_out],
            meters |-> m]
      [] f.pc = "coin_out_store" ->
           [frame |-> [f EXCEPT !.pc = "credit_load"],
            meters |-> [m EXCEPT !.coin_out = SASMeter_iadd(f.tmp, f.win)]]
      [] f.pc = "credit_load" ->
           [frame |-> [f EXCEPT !.pc = "credit_store", !.tmp = m.credits],
            meters |-> m]
      [] f.pc = "credit_store" ->
           [frame |-> [f EXCEPT !.pc = "returned"],
            meters |-> [m EXCEPT !.credits = SASMeter_iadd(f.tmp, f.win)]]

\* Game.spin run from frame f to its end with no other thread in between
RECURSIVE Game_spin(_, _, _)
Game_spin(self, f, m) ==
    IF f.pc \in SpinEnded THEN [frame |-> f, meters |-> m]
    ELSE LET s == Game_spin_step(self, f, m) IN
         Game_spin(self, s.frame, s.meters)

\* what a call of spin that has ended produced
SpinOutcome(f) == IF f.pc = "raised" THEN Raise(f.exc) ELSE PyNone

(***************************************************************************)
(* Specifications: an object after construction, then one method call.     *)
(***************************************************************************)
Constructed(objects) ==
    /\ obj \in objects
    /\ op = "constructed"
    /\ args = <<>>
    /\ ret = NoCall
    /\ meters = <<>>
    /\ frames = <<>>
    /\ rng = <<>>
    /\ threads = <<>>

\* no method has been applied to the object yet
Fresh == op = "constructed"

Call(name, arguments, outcome) ==
    /\ op' = name
    /\ args' = arguments
    /\ ret' = outcome
    /\ UNCHANGED <<obj, meters, frames, rng, threads>>

InitSymbol == Constructed(AllSymbols)

\* self == other
SymbolEq ==
    /\ Fresh
    /\ \E other \in AllSymbols :
           Call("Symbol.__eq__", <<other>>, Ok(Symbol_eq(obj, other)))

SpecSymbol == InitSymbol /\ [][SymbolEq]_vars

InitReel == Constructed(Reels)

\* reel.slice(stop), for stops inside and just outside the strip
ReelSlice ==
    /\ Fresh
    /\ \E stop \in -1..MaxReelLen :
           Call("Reel.slice", <<stop>>, Reel_slice(obj, stop))

SpecReel == InitReel /\ [][ReelSlice]_vars

\* ScatterPay(symbol, n, pays): n is not read by the evaluators
ScatterRules ==
    {GameRule("ScatterPay", s, 0, PaySchedule(k), <<>>) :
        s \in Symbols, k \in 0..(NumReels * WindowRows)}

InitScatterPay == Constructed(ScatterRules)

\* rule(window)
ScatterPayCall ==
    /\ Fresh
    /\ \E window \in Windows :
           Call("ScatterPay.__call__", <<window>>, ScatterPay_call(obj, window))

SpecScatterPay == InitScatterPay /\ [][ScatterPayCall]_vars

\* LinePay(symbol, pays, paylines)
LineRules ==
    {GameRule("LinePay", s, 0, PaySchedule(k), Paylines) :
        s \in Symbols, k \in 0..NumReels}

InitLinePay == Constructed(LineRules)

\* rule(window, active), active a number of lines played
LinePayCall ==
    /\ Fresh
    /\ \E window \in Windows, active \in 0..(NumLines + 1) :
           Call("LinePay.__call__", <<window, active>>,
                LinePay_call(obj, window, active))

SpecLinePay == InitLinePay /\ [][LinePayCall]_vars

\* WinWays(symbol, n, pays)
WaysRules ==
    {GameRule("WinWays", s, 0, PaySchedule(k), <<>>) :
        s \in Symbols, k \in 0..NumReels}

InitWinWays == Constructed(WaysRules)

\* rule(window)
WinWaysCall ==
    /\ Fresh
    /\ \E window \in Windows :
           Call("WinWays.__call__", <<window>>, WinWays_call(obj, window))

SpecWinWays == InitWinWays /\ [][WinWaysCall]_vars

\* the pays of the LeftPay rules: a scalar, never 0 (the tests skip p = 0)
LeftPays == {5, 5000}

\* LeftPay(symbol, n, pays)
LeftRules ==
    {GameRule("LeftPay", s, n, p, <<>>) :
        s \in Symbols, n \in 0..MaxLine, p \in LeftPays}

Lines == UNION {[1..k -> Symbols] : k \in 0..MaxLine}

InitLeftPay == Constructed(LeftRules)

\* rule(line)
LeftPayCall ==
    /\ Fresh
    /\ \E line \in Lines :
           Call("LeftPay.__call__", <<line>>, LeftPay_call(obj, line))

SpecLeftPay == InitLeftPay /\ [][LeftPayCall]_vars

\* the rules of a game, as handed to calc_rtp
Paytable(rules) == [class |-> "Paytable", rules |-> rules]

AtkinsLines ==
    [1..AtkinsReels -> {SymbolTable[i] : i \in 1..NumLineSymbols}]

InitAtkins == Constructed({Paytable(AtkinsRules)})

\* the pay of one line over the rules
EvaluatePays ==
    /\ Fresh
    /\ \E line \in AtkinsLines :
           Call("evaluate_pays", <<line>>, Ok(HighestWinner(obj.rules, line)))

SpecAtkins == InitAtkins /\ [][EvaluatePays]_vars

\* reels handed to the payback methods: a strip at least as long as the window
PaybackReels ==
    {r \in {Reel(s, w) :
                s \in UNION {[1..n -> Symbols] : n \in 1..MaxPaybackLen},
                w \in 1..MaxPaybackWindow} :
        r.window <= Len(r.symbols)}

PaybackReelLists == UNION {[1..r -> PaybackReels] : r \in 0..MaxPaybackReels}

\* scatter rules whose schedule covers every count the reels can show
ScatterPaybackRules ==
    {GameRule("ScatterPay", s, 0,
              PaySchedule(MaxPaybackReels * MaxPaybackWindow), <<>>) :
        s \in Symbols}

InitScatterPayback == Constructed(ScatterPaybackRules)

\* rule.payback(freqs, reels) with the target's count on each reel as freqs
ScatterPaybackCall ==
    /\ Fresh
    /\ \E reels \in PaybackReelLists :
           \E freqs \in {SymbolFreqs(reels, obj.symbol),
                         MatchFreqs(reels, obj.symbol)} :
               Call("ScatterPay.payback", <<freqs, reels>>,
                    ScatterPay_payback(obj, freqs, reels))

SpecScatterPayback == InitScatterPayback /\ [][ScatterPaybackCall]_vars

LeftPaybackRules ==
    {GameRule("LeftPay", s, n, p, <<>>) :
        s \in Symbols, n \in 1..MaxPaybackReels, p \in LeftPays}

InitLeftPayback == Constructed(LeftPaybackRules)

\* rule.payback(reels)
LeftPaybackCall ==
    /\ Fresh
    /\ \E reels \in PaybackReelLists :
           Call("LeftPay.payback", <<reels>>, LeftPay_payback(obj, reels))

SpecLeftPayback == InitLeftPayback /\ [][LeftPaybackCall]_vars

(***************************************************************************)
(* Pay schedules of any length: the three evaluators and the two payback   *)
(* methods that read a schedule                                            *)
(***************************************************************************)
\* the first rule of test.py: a schedule of two entries on three reels
CherryRule == GameRule("LinePay", steak, 0, <<2, 5>>, Paylines)

ScheduleRules == ScatterRules \cup LineRules \cup WaysRules \cup {CherryRule}

\* three reels of one row, as many as test.py has
ThreeReels == [i \in 1..NumReels |-> Reel(<<steak, scale>>, 1)]

InitSchedule == Constructed(ScheduleRules)

\* rule.payback(freqs, reels) of a LinePay
LinePaybackCall ==
    /\ Fresh
    /\ obj.class = "LinePay"
    /\ \E reels \in PaybackReelLists \cup {ThreeReels} :
           \E freqs \in {SymbolFreqs(reels, obj.symbol),
                         MatchFreqs(reels, obj.symbol)} :
               Call("LinePay.payback", <<freqs, reels>>,
                    LinePay_payback(obj, freqs, reels))

\* the calls the class of the rule has
NextSchedule ==
    \/ obj.class = "ScatterPay" /\ ScatterPayCall
    \/ obj.class = "ScatterPay" /\ ScatterPaybackCall
    \/ obj.class = "LinePay" /\ LinePayCall
    \/ LinePaybackCall
    \/ obj.class = "WinWays" /\ WinWaysCall

SpecSchedule == InitSchedule /\ [][NextSchedule]_vars

(***************************************************************************)
(* calc_rtp over reels and LeftPay rules                                   *)
(***************************************************************************)
\* the reels of the payback methods and a reel without symbols
RtpReelLists ==
    UNION {[1..r -> PaybackReels \cup {Reel(<<>>, 1)}] :
              r \in 0..MaxPaybackReels}

\* one or two line rules
RtpPaytables ==
    {Paytable(rules) :
        rules \in UNION {[1..k -> LeftPaybackRules] : k \in 1..2}}

InitRtp == Constructed(RtpPaytables)

\* calc_rtp(reels, rules)
CalcRtp ==
    /\ Fresh
    /\ \E reels \in RtpReelLists :
           Call("calc_rtp", <<reels>>, calc_rtp(reels, obj.rules))

SpecRtp == InitRtp /\ [][CalcRtp]_vars

(***************************************************************************)
(* Game: add_credits, spin and cash_out called one after the other         *)
(***************************************************************************)
\* the schedule of the first rule of test.py
GamePays == <<2, 5>>

\* the first two paylines of test.py, over two reels
GamePaylines == <<<<1, 1>>, <<0, 0>>>>

\* two reels of two rows in either order: the wild stands in for steak
GameReelLists ==
    LET short == Reel(<<steak, scale>>, 2)
        long == Reel(<<atkins, scale, steak>>, 2)
    IN  {<<short, long>>, <<long, short>>}

GamePaytables ==
    LET line == GameRule("LinePay", steak, 0, GamePays, GamePaylines)
        scatter == GameRule("ScatterPay", steak, 0, GamePays, <<>>)
        ways == GameRule("WinWays", scale, 0, GamePays, <<>>)
    IN  {<<line>>, <<scatter>>, <<ways>>, <<line, scatter>>}

Games ==
    {Game(reels, paytable) :
        reels \in GameReelLists, paytable \in GamePaytables}

\* a Game after __init__: the meters at 0, no call in progress, and the
\* thread started by self.rng.cycle() in its loop
GameConstructed(games, callers) ==
    /\ obj \in games
    /\ op = "constructed"
    /\ args = <<>>
    /\ ret = NoCall
    /\ meters = SASGame
    /\ frames = [t \in 1..callers |-> IdleFrame]
    /\ rng = [is_cycling |-> TRUE, rng_thread |-> 1, cur |-> 0]
    /\ threads = <<"test">>

\* the stops rng.randint(0, len(reel.symbols)) can return, one per reel
SpinStops(self) ==
    {[i \in 1..Len(self.reels) |->
         RNG_randint(draws[i], 0, Len(self.reels[i].symbols))] :
        draws \in [1..Len(self.reels) -> Randoms]}

\* game.add_credits(n)
AddCredits(n) ==
    /\ meters' = [meters EXCEPT !.credits = SASMeter_iadd(@, n)]
    /\ op' = "Game.add_credits"
    /\ args' = <<n>>
    /\ ret' = PyNone
    /\ UNCHANGED <<obj, frames, rng, threads>>

\* game.spin(lines, line_bet) with these stops drawn
Spin(lines, line_bet, stops) ==
    \E end \in {Game_spin(obj, SpinFrame("coin_in_load", lines, line_bet,
                                         stops), meters)} :
        /\ meters' = end.meters
        /\ frames' = [frames EXCEPT ![1] = end.frame]
        /\ op' = "Game.spin"
        /\ args' = <<lines, line_bet>>
        /\ ret' = SpinOutcome(end.frame)
        /\ UNCHANGED <<obj, rng, threads>>

InitGame == GameConstructed(Games, 1)

\* the amounts handed to add_credits
CreditInputs == -1..MaxCredits

GameAddCredits ==
    /\ meters.credits < MaxCredits
    /\ \E n \in CreditInputs : AddCredits(n)

GameSpin ==
    /\ meters.coin_in < MaxCoinIn
    /\ \E lines \in 1..Len(GamePaylines), line_bet \in 1..MaxBet :
           \E stops \in SpinStops(obj) : Spin(lines, line_bet, stops)

\* game.cash_out()
GameCashOut ==
    /\ op # "Game.cash_out"
    /\ meters' = [meters EXCEPT !.credits = SASMeter_clear(@)]
    /\ op' = "Game.cash_out"
    /\ args' = <<>>
    /\ ret' = PyNone
    /\ UNCHANGED <<obj, frames, rng, threads>>

SpecGame == InitGame /\ [][GameAddCredits \/ GameSpin \/ GameCashOut]_vars

(***************************************************************************)
(* Game: the first spin of a game, over many reels                         *)
(***************************************************************************)
\* the default of Reel.__init__: window=3
DefaultWindow == 3

SpinReels ==
    {Reel(s, w) :
        s \in UNION {[1..n -> {steak, scale}] : n \in 1..SpinLen},
        w \in 1..DefaultWindow}

\* games of NumReels reels with one scatter rule whose schedule covers every
\* count the window can show
SpinGames ==
    {Game(reels,
          <<GameRule("ScatterPay", steak, 0,
                     PaySchedule(NumReels * DefaultWindow), <<>>)>>) :
        reels \in [1..NumReels -> SpinReels]}

InitSpin == GameConstructed(SpinGames, 1)

\* choice 1 of test.py: g.spin(1, 1)
FirstSpin ==
    /\ Fresh
    /\ \E stops \in SpinStops(obj) : Spin(1, 1, stops)

SpecSpin == InitSpin /\ [][FirstSpin]_vars

(***************************************************************************)
(* Game: spins called from several threads.  Game and SASMeter take no     *)
(* lock, so the threads interleave between any two steps of                *)
(* Game_spin_step, and a thread that reads a meter may do so in any state. *)
(***************************************************************************)
\* the thread that reads the credits meter
Reader == NumSpinners + 1

\* one line rule and the two orders of the reels
SharedGames == {g \in Games : Len(g.paytable) = 1
                                /\ g.paytable[1].class = "LinePay"}

InitSpins == GameConstructed(SharedGames, Reader)

\* credits inserted before the threads are started
InsertCredits ==
    /\ Fresh
    /\ \A t \in 1..Reader : frames[t].pc = "idle"
    /\ \E n \in CreditInputs : AddCredits(n)

\* thread t calls game.spin(lines, 1)
SpinCall(t) ==
    /\ frames[t].pc = "idle"
    /\ \E lines \in 1..Len(GamePaylines), stops \in SpinStops(obj) :
           frames' = [frames EXCEPT
                         ![t] = SpinFrame("coin_in_load", lines, 1, stops)]
    /\ UNCHANGED <<obj, op, args, ret, meters, rng, threads>>

\* thread t runs the next step of its spin
SpinStep(t) ==
    /\ frames[t].pc \notin {"idle"} \cup SpinEnded
    /\ \E s \in {Game_spin_step(obj, frames[t], meters)} :
           /\ frames' = [frames EXCEPT ![t] = s.frame]
           /\ meters' = s.meters
    /\ UNCHANGED <<obj, op, args, ret, rng, threads>>

\* the reader evaluates game.meters.credits.value
ReadCredits ==
    /\ frames[Reader].pc = "idle"
    /\ frames' = [frames EXCEPT ![Reader] =
                      [IdleFrame EXCEPT !.pc = "read", !.tmp = meters.credits]]
    /\ UNCHANGED <<obj, op, args, ret, meters, rng, threads>>

NextSpins ==
    \/ InsertCredits
    \/ \E t \in 1..NumSpinners : SpinCall(t)
    \/ \E t \in 1..NumSpinners : SpinStep(t)
    \/ ReadCredits

SpecSpins == InitSpins /\ [][NextSpins]_vars

(***************************************************************************)
(* RNG: cycle, stop_cycle and chi_square called from one thread, and the   *)
(* threads that run rng_cycle.  A thread is at "test" (about to evaluate   *)
(* the while condition), at "write" (about to store a new _cur and sleep)  *)
(* or "exited".                                                            *)
(***************************************************************************)
\* RNG.__init__
RNG(cur) == [is_cycling |-> FALSE, rng_thread |-> 0, cur |-> cur]

\* the frame of the calling thread: where it is, and whether chi_square has
\* taken the branch that stops the cycle
CallerFrame(pc, stopped) == [pc |-> pc, stopped |-> stopped]

\* Thread.is_alive() of thread i
IsAlive(i) == threads[i] # "exited"

\* category i of chi_square holds the sample u / RandomRes when
\* i/k < sample <= (i+1)/k
ChiCount(samples, i, k) ==
    Cardinality({j \in 1..Len(samples) :
                    /\ i * RandomRes < samples[j] * k
                    /\ samples[j] * k <= (i + 1) * RandomRes})

\* x * (n * k) after the categories from i on: (u - n/k)**2 / (n/k) is
\* (k*u - n)^2 / (k*n)
RECURSIVE ChiSum(_, _, _, _)
ChiSum(samples, n, k, i) ==
    IF i >= k THEN 0
    ELSE (k * ChiCount(samples, i, k) - n) ^ 2 + ChiSum(samples, n, k, i + 1)

\* RNG.chi_square, the statistic of the samples drawn: no category leaves
\* x = 0, and n = 0 divides by n/k = 0.0
RNG_chi_square(samples, n, k) ==
    IF k <= 0 THEN Ok(Rational(0, 1))
    ELSE IF n = 0 THEN Raise("ZeroDivisionError")
    ELSE Ok(Rational(ChiSum(samples, n, k, 0), k * n))

InitRNG ==
    /\ obj = [class |-> "RNG", hz |-> 100]
    /\ op = "constructed"
    /\ args = <<>>
    /\ ret = NoCall
    /\ meters = <<>>
    /\ frames = <<CallerFrame("idle", FALSE)>>
    /\ rng \in {RNG(cur) : cur \in Randoms}
    /\ threads = <<>>

\* the caller is between two calls
Idle == frames[1].pc = "idle"

\* rng.cycle(): a new thread is made rng_thread, the flag is set and the
\* thread is started
RNGCycle ==
    /\ Idle
    /\ Len(threads) < MaxThreads
    /\ threads' = Append(threads, "test")
    /\ rng' = [rng EXCEPT !.is_cycling = TRUE, !.rng_thread = Len(threads) + 1]
    /\ op' = "RNG.cycle"
    /\ args' = <<>>
    /\ ret' = PyNone
    /\ UNCHANGED <<obj, meters, frames>>

\* rng.stop_cycle(), up to the join: the flag is cleared; an RNG that has
\* never cycled has no rng_thread attribute
RNGStopCycle ==
    /\ Idle
    /\ rng' = [rng EXCEPT !.is_cycling = FALSE]
    /\ op' = "RNG.stop_cycle"
    /\ args' = <<>>
    /\ IF rng.rng_thread = 0
       THEN ret' = Raise("AttributeError") /\ UNCHANGED frames
       ELSE ret' = NoCall /\ frames' = <<CallerFrame("join", FALSE)>>
    /\ UNCHANGED <<obj, meters, threads>>

\* self.rng_thread.join() returns once the thread has exited
StopCycleJoin ==
    /\ frames[1].pc = "join"
    /\ ~IsAlive(rng.rng_thread)
    /\ frames' = <<CallerFrame("idle", FALSE)>>
    /\ ret' = PyNone
    /\ UNCHANGED <<obj, op, args, meters, rng, threads>>

\* rng.chi_square(n, k), up to the join of stop_cycle or, when the RNG is
\* not cycling, up to the sampling
RNGChiSquare ==
    /\ Idle
    /\ Len(threads) < MaxThreads
    /\ \E n \in 0..MaxSamples, k \in 0..MaxCategories :
           /\ op' = "RNG.chi_square"
           /\ args' = <<n, k>>
           /\ ret' = NoCall
    /\ IF rng.is_cycling
       THEN /\ rng' = [rng EXCEPT !.is_cycling = FALSE]
            /\ frames' = <<CallerFrame("chi_join", TRUE)>>
       ELSE /\ frames' = <<CallerFrame("chi_sample", FALSE)>>
            /\ UNCHANGED rng
    /\ UNCHANGED <<obj, meters, threads>>

\* the join inside chi_square returns and the flag is set again
ChiSquareJoin ==
    /\ frames[1].pc = "chi_join"
    /\ ~IsAlive(rng.rng_thread)
    /\ rng' = [rng EXCEPT !.is_cycling = TRUE]
    /\ frames' = <<CallerFrame("chi_sample", TRUE)>>
    /\ UNCHANGED <<obj, op, args, ret, meters, threads>>

\* the samples are drawn and the statistic computed; if that raises,
\* chi_square is left at once, else the cycle is started again when the
\* flag is set
ChiSquareSample ==
    /\ frames[1].pc = "chi_sample"
    /\ \E samples \in [1..args[1] -> Randoms] :
           ret' = RNG_chi_square(samples, args[1], args[2])
    /\ frames' = <<CallerFrame("idle", frames[1].stopped)>>
    /\ IF ret'.tag = "ok" /\ rng.is_cycling
       THEN /\ threads' = Append(threads, "test")
            /\ rng' = [rng EXCEPT !.rng_thread = Len(threads) + 1]
       ELSE UNCHANGED <<rng, threads>>
    /\ UNCHANGED <<obj, op, args, meters>>

\* rng_cycle run by thread i: one evaluation of the while condition, or one
\* pass through the body of the loop
ThreadStep(i) ==
    /\ i <= Len(threads)
    /\ \/ /\ threads[i] = "test"
          /\ threads' = [threads EXCEPT
                            ![i] = IF rng.is_cycling THEN "write" ELSE "exited"]
          /\ UNCHANGED rng
       \/ /\ threads[i] = "write"
          /\ \E cur \in Randoms : rng' = [rng EXCEPT !.cur = cur]
          /\ threads' = [threads EXCEPT ![i] = "test"]
    /\ UNCHANGED <<obj, op, args, ret, meters, frames>>

NextRNG ==
    \/ RNGCycle
    \/ RNGStopCycle
    \/ StopCycleJoin
    \/ RNGChiSquare
    \/ ChiSquareJoin
    \/ ChiSquareSample
    \/ \E i \in 1..MaxThreads : ThreadStep(i)

SpecRNG == InitRNG /\ [][NextRNG]_vars

\* every thread that can run is scheduled: each rng_cycle thread, and the
\* caller once the join it waits in can return
FairSpecRNG ==
    /\ SpecRNG
    /\ \A i \in 1..MaxThreads : WF_vars(ThreadStep(i))
    /\ WF_vars(StopCycleJoin)
    /\ WF_vars(ChiSquareJoin)
    /\ WF_vars(ChiSquareSample)

(***************************************************************************)
(* Every object and every method together.                                 *)
(***************************************************************************)
Init ==
    Constructed(AllSymbols \cup Reels \cup ScatterRules \cup LineRules
                \cup WaysRules \cup LeftRules \cup {Paytable(AtkinsRules)})

Next ==
    \/ obj \in AllSymbols /\ SymbolEq
    \/ obj \in Reels /\ ReelSlice
    \/ obj \in ScatterRules /\ ScatterPayCall
    \/ obj \in ScatterPaybackRules /\ ScatterPaybackCall
    \/ obj \in LineRules /\ LinePayCall
    \/ obj \in WaysRules /\ WinWaysCall
    \/ obj \in LeftRules /\ LeftPayCall
    \/ obj \in LeftPaybackRules /\ LeftPaybackCall
    \/ obj \in {Paytable(AtkinsRules)} /\ EvaluatePays

Spec == Init /\ [][Next]_vars

(***************************************************************************)
(* C1: Symbol matching is reflexive and symmetric, and holds exactly when  *)
(* the names are equal, or the receiver is wild and does not exclude the   *)
(* other's name, or the other is wild and does not exclude the receiver's. *)
(***************************************************************************)
MatchRelation(A, B) ==
    \/ A.name = B.name
    \/ A.wild /\ B.name \notin A.wild_excludes
    \/ B.wild /\ A.name \notin B.wild_excludes

C1_MatchReflexiveSymmetric ==
    op = "Symbol.__eq__" =>
        /\ ret = Ok(MatchRelation(obj, args[1]))
        /\ ret = Ok(Symbol_eq(args[1], obj))
        /\ (args[1] = obj => ret = Ok(TRUE))

\* a wild receiver matched against a non-wild symbol of another name
C1_Witness ==
    /\ op = "Symbol.__eq__"
    /\ ~obj.wild /\ args[1].wild
    /\ obj.name # args[1].name
    /\ ret = Ok(TRUE)

(***************************************************************************)
(* C2: for 0 <= stop < N and W <= N, slice(stop) is the W symbols          *)
(* symbols[(stop + i) mod N], i = 0..W-1; slice(N-1) is the last symbol    *)
(* followed by the first W-1; a stop outside [0, N) raises AssertionError. *)
(***************************************************************************)
C2_SliceWraps ==
    op = "Reel.slice" =>
        LET N == Len(obj.symbols)
            W == obj.window
            stop == args[1]
        IN  /\ (0 <= stop /\ stop < N /\ W <= N) =>
                   /\ ret.tag = "ok"
                   /\ Len(ret.val) = W
                   /\ \A i \in 0..(W - 1) :
                          ret.val[i + 1] = obj.symbols[((stop + i) % N) + 1]
            /\ (stop = N - 1 /\ W <= N) =>
                   ret = Ok(<<obj.symbols[N]>> \o SubSeq(obj.symbols, 1, W - 1))
            /\ (stop < 0 \/ stop >= N) => ret = Raise("AssertionError")

\* a slice that wraps: it starts at the last stop and shows more than one row
C2_Witness ==
    /\ op = "Reel.slice"
    /\ obj.window > 1 /\ obj.window <= Len(obj.symbols)
    /\ args[1] = Len(obj.symbols) - 1
    /\ ret.tag = "ok"
    /\ ret.val[2] = obj.symbols[1]
    /\ ret.val[1] # ret.val[2]

(***************************************************************************)
(* C3: ScatterPay evaluation counts every displayed symbol that matches    *)
(* the target, wherever it is, and returns pays[count-1] when count > 0    *)
(* and 0 when count = 0; counts <<1, 0, 2>> with pays <<0, 5, 25>> give 25.*)
(***************************************************************************)
\* the displayed positions <<reel, row>> that match the target
MatchingCells(window, target) ==
    {c \in (1..Len(window)) \X (1..WindowRows) :
        MatchRelation(window[c[1]][c[2]], target)}

InReel(window, target, i) ==
    Cardinality({c \in MatchingCells(window, target) : c[1] = i})

C3_ScatterCountsEverySymbol ==
    op = "ScatterPay.__call__" =>
        LET count == Cardinality(MatchingCells(args[1], obj.symbol)) IN
        /\ count = 0 => ret = Ok(0)
        /\ (count > 0 /\ count <= Len(obj.pays)) => ret = Ok(obj.pays[count])
        /\ (/\ obj.pays = <<0, 5, 25>>
            /\ [i \in 1..3 |-> InReel(args[1], obj.symbol, i)] = <<1, 0, 2>>)
               => ret = Ok(25)

\* the scenario of the specification: counts 1, 0, 2 pay pays[2] = 25
C3_Witness ==
    /\ op = "ScatterPay.__call__"
    /\ obj.pays = <<0, 5, 25>>
    /\ Len(args[1]) = 3
    /\ [i \in 1..3 |-> InReel(args[1], obj.symbol, i)] = <<1, 0, 2>>
    /\ ret = Ok(25)

(***************************************************************************)
(* C4: LinePay evaluation is the sum, over exactly the first `active`      *)
(* paylines, of pays[n-1], n being the number of consecutive matches on    *)
(* the line from reel 0 to the first non-match; lines with n = 0 and       *)
(* lines beyond the first `active` add nothing.                            *)
(***************************************************************************)
\* the length of the leading run of matches of a sequence of symbols
LeadRun(seq, target) ==
    CHOOSE m \in 0..Len(seq) :
        /\ \A k \in 1..m : MatchRelation(seq[k], target)
        /\ (m = Len(seq) \/ ~MatchRelation(seq[m + 1], target))

LineRun(rule, window, k) ==
    LeadRun([i \in 1..Len(rule.paylines[k]) |->
                window[i][rule.paylines[k][i] + 1]], rule.symbol)

LineWin(rule, window, k) ==
    IF LineRun(rule, window, k) = 0 THEN 0
    ELSE rule.pays[LineRun(rule, window, k)]

RECURSIVE SumOfLines(_, _, _)
SumOfLines(rule, window, m) ==
    IF m = 0 THEN 0
    ELSE SumOfLines(rule, window, m - 1) + LineWin(rule, window, m)

C4_LinePayAdditive ==
    op = "LinePay.__call__" =>
        LET played == IF args[2] < Len(obj.paylines) THEN args[2]
                      ELSE Len(obj.paylines)
        IN  (\A k \in 1..played : LineRun(obj, args[1], k) <= Len(obj.pays))
                => ret = Ok(SumOfLines(obj, args[1], played))

\* three lines played, two of them win and the third does not
C4_Witness ==
    /\ op = "LinePay.__call__"
    /\ args[2] = 3
    /\ Len(obj.pays) = NumReels
    /\ Cardinality({k \in 1..3 : LineWin(obj, args[1], k) > 0}) = 2
    /\ \E j, k \in 1..3 :
          /\ j # k
          /\ LineWin(obj, args[1], j) > 0
          /\ LineWin(obj, args[1], k) > 0
          /\ ret = Ok(LineWin(obj, args[1], j) + LineWin(obj, args[1], k))

(***************************************************************************)
(* C5: WinWays evaluation returns pays[n-1] * ways_multiplier when n > 0   *)
(* and the integer 0 when n = 0, n being the number of leading reels with  *)
(* at least one match and ways_multiplier the product of their counts.     *)
(***************************************************************************)
\* the number of leading reels that each show at least one match
AdjacentReels(window, target) ==
    CHOOSE m \in 0..Len(window) :
        /\ \A i \in 1..m : InReel(window, target, i) > 0
        /\ (m = Len(window) \/ InReel(window, target, m + 1) = 0)

RECURSIVE WaysProduct(_, _, _)
WaysProduct(window, target, m) ==
    IF m = 0 THEN 1
    ELSE WaysProduct(window, target, m - 1) * InReel(window, target, m)

C5_WinWaysPays ==
    op = "WinWays.__call__" =>
        LET n == AdjacentReels(args[1], obj.symbol) IN
        /\ (n > 0 /\ n <= Len(obj.pays)) =>
               ret = Ok(obj.pays[n] * WaysProduct(args[1], obj.symbol, n))
        /\ n = 0 => ret = Ok(0)

C7_WildLinePays ==
    (/\ op = "LeftPay.__call__"
     /\ obj.symbol.wild
     /\ obj.n >= 1
     /\ args[1] = [k \in 1..obj.n |-> obj.symbol]) => ret = Ok(obj.pays)

(***************************************************************************)
(* C8: over the Atkins rules the pay of a line is that of the highest-     *)
(* paying rule with wilds standing in for the regular symbol: atkins,      *)
(* steak, atkins, atkins, eggs pays 200; butter, butter, atkins, steak,    *)
(* steak pays 15; eggs, eggs, wings, steak, atkins pays 0.                 *)
(***************************************************************************)
C8_AtkinsLinePays ==
    op = "evaluate_pays" =>
        /\ args[1] = <<atkins, steak, atkins, atkins, eggs>>
               => ret.val.highest_winner = 200
        /\ args[1] = <<butter, butter, atkins, steak, steak>>
               => ret.val.highest_winner = 15
        /\ args[1] = <<eggs, eggs, wings, steak, atkins>>
               => ret.val.highest_winner = 0

(***************************************************************************)
(* C9: ScatterPay.payback is exact: with freqs the number of target        *)
(* symbols on each reel, payback times the product of the reel lengths is  *)
(* the sum, over every combination of one stop per reel, of the ScatterPay *)
(* evaluation of the window Reel.slice shows at those stops.               *)
(***************************************************************************)
\* every combination of one stop per reel
StopCombos(reels) ==
    {stops \in [1..Len(reels) -> 0..(MaxPaybackLen - 1)] :
        \A i \in 1..Len(reels) : stops[i] < Len(reels[i].symbols)}

SpinWindow(reels, stops) ==
    [i \in 1..Len(reels) |-> Reel_slice(reels[i], stops[i]).val]

RECURSIVE SumOverCombos(_, _, _)
SumOverCombos(rule, reels, combos) ==
    IF combos = {} THEN 0
    ELSE LET stops == CHOOSE c \in combos : TRUE IN
         ScatterPay_call(rule, SpinWindow(reels, stops)).val
         + SumOverCombos(rule, reels, combos \ {stops})

C9_ScatterPaybackExact ==
    (/\ op = "ScatterPay.payback"
     /\ Len(args[2]) >= 1
     /\ \A i \in 1..Len(args[2]) : Len(args[2][i].symbols) >= 1) =>
        /\ ret.tag = "ok"
        /\ ret.val.num * TotalCombos(args[2], Len(args[2]))
               = SumOverCombos(obj, args[2], StopCombos(args[2])) * ret.val.den

(***************************************************************************)
(* C10: LeftPay.payback(reels) with 1 <= n <= number of reels returns the  *)
(* pair (probability, return): probability is the fraction of the one-     *)
(* symbol-per-reel stop combinations on which LeftPay evaluation pays, and *)
(* return is probability * pays.                                           *)
(***************************************************************************)
\* the stop combinations whose line is paid by the rule
PayingCombos(rule, reels) ==
    {stops \in StopCombos(reels) :
        LeftPay_call(rule, [i \in 1..Len(reels) |->
                               reels[i].symbols[stops[i] + 1]]).val > 0}

C10_LeftPaybackExact ==
    (/\ op = "LeftPay.payback"
     /\ obj.n >= 1 /\ obj.n <= Len(args[1])
     /\ \A i \in 1..Len(args[1]) : Len(args[1][i].symbols) >= 1) =>
        /\ ret.tag = "ok"
        /\ ret.val[1].num * TotalCombos(args[1], Len(args[1]))
               = Cardinality(PayingCombos(obj, args[1])) * ret.val[1].den
        /\ ret.val[2].num * ret.val[1].den
               = ret.val[1].num * obj.pays * ret.val[2].den

(***************************************************************************)
(* C11: LeftPay(atkins, n, 5000).payback over n reels of one length, each  *)
(* with exactly one atkins wild and one scale symbol (n = 5 and length 32  *)
(* in the game), completes without error and the probability it returns    *)
(* is strictly greater than 0 and strictly less than (1/length)^n.         *)
(***************************************************************************)
\* the number of cells of the strip that hold exactly this symbol
SymbolCount(strip, symbol) ==
    Cardinality({k \in 1..Len(strip) : strip[k] = symbol})

\* the reels of the Atkins layout: one wild and one scale on every strip
AtkinsLayout(reels) ==
    /\ Len(reels) >= 1
    /\ \A i \in 1..Len(reels) :
           /\ Len(reels[i].symbols) = Len(reels[1].symbols)
           /\ SymbolCount(reels[i].symbols, atkins) = 1
           /\ SymbolCount(reels[i].symbols, scale) = 1

C11_AtkinsJackpotProbability ==
    (/\ op = "LeftPay.payback"
     /\ obj.symbol = atkins /\ obj.pays = 5000
     /\ obj.n = Len(args[1])
     /\ AtkinsLayout(args[1])) =>
        /\ ret.tag = "ok"
        /\ ret.val[1].den > 0
        /\ ret.val[1].num > 0
        /\ ret.val[1].num * TotalCombos(args[1], Len(args[1]))
               < ret.val[1].den

(***************************************************************************)
(* C12: a spin(lines, line_bet) that returns has raised coin_in by         *)
(* lines * line_bet, has debited that wager from credits (clamped at 0     *)
(* when the credits do not cover it), has won the sum over the rules of    *)
(* the paytable of rule(window, lines) * line_bet, has raised coin_out by  *)
(* the win and has credited the win after the debit:                       *)
(* credits_after = max(0, credits_before - lines * line_bet) + win.        *)
(***************************************************************************)
\* the sum of rule(window, lines) * line_bet over the first k rules
RECURSIVE SumOfRules(_, _, _, _, _)
SumOfRules(paytable, window, lines, line_bet, k) ==
    IF k = 0 THEN 0
    ELSE SumOfRules(paytable, window, lines, line_bet, k - 1)
         + Rule_call(paytable[k], window, lines).val * line_bet

C18_SpinColumnsAreSlices ==
    [][op' = "Game.spin" =>
          /\ obj'.reels = obj.reels
          /\ Len(frames'[1].window) = Len(obj.reels)
          /\ \A i \in 1..Len(obj.reels) :
                 LET reel == obj.reels[i]
                     stop == frames'[1].stops[i]
                 IN  /\ 0 <= stop
                     /\ stop < Len(reel.symbols)
                     /\ Reel_slice(reel, stop) = Ok(frames'[1].window[i])]_vars

\* a spin whose second column wraps: the strip steak, scale shown from its
\* last stop
C18_Witness ==
    /\ op = "Game.spin"
    /\ obj.reels[2] = Reel(<<steak, scale>>, 2)
    /\ frames[1].stops[2] = 1
    /\ frames[1].window[2] = <<scale, steak>>

(***************************************************************************)
(* C14: spins called at the same time on one Game are atomic for the       *)
(* meters: once all of them have ended, coin_in, coin_out and credits are  *)
(* those of the same spins run one after the other in some order, and the  *)
(* credits a reader sees are those some of the spins, run one after the    *)
(* other, leave (never a wager debited whose win is still to be credited). *)
(***************************************************************************)
\* the meters when the threads were started
MetersAtStart ==
    [SASGame EXCEPT !.credits = IF op = "Game.add_credits"
                                THEN Positive(args[1]) ELSE 0]

\* the meters after the spins of the threads T run one after the other from
\* the meters m, in every order
RECURSIVE SerialMeters(_, _)
SerialMeters(T, m) ==
    IF T = {} THEN {m}
    ELSE UNION {SerialMeters(T \ {t},
                    Game_spin(obj, SpinFrame("coin_in_load", frames[t].lines,
                                             frames[t].line_bet,
                                             frames[t].stops), m).meters) :
                  t \in T}

\* the threads that have called spin
Spinning == {t \in 1..NumSpinners : frames[t].pc # "idle"}

C14_SpinsAreAtomic ==
    /\ (\A t \in 1..NumSpinners : frames[t].pc \in SpinEnded) =>
           meters \in SerialMeters(1..NumSpinners, MetersAtStart)
    /\ frames[Reader].pc = "read" =>
           \E T \in SUBSET Spinning :
               \E m \in SerialMeters(T, MetersAtStart) :
                   frames[Reader].tmp = m.credits

(***************************************************************************)
(* C15: chi_square suspends and restores the cycle: when it has stopped    *)
(* the cycle no thread is alive while the samples are drawn and one is     *)
(* alive when it returns; when the RNG was not cycling no thread is        *)
(* started; and when chi_square is left by an error, is_cycling is set     *)
(* exactly when a thread is alive.                                         *)
(***************************************************************************)
\* some thread started by cycle() is alive
CycleAlive == \E i \in 1..Len(threads) : IsAlive(i)

\* the threads started before chi_square was called: all of them but the
\* one chi_square has started itself
StartedBefore ==
    Len(threads)
    - (IF Idle /\ ret.tag = "ok" /\ frames[1].stopped THEN 1 ELSE 0)

\* chi_square called on an RNG that has one cycle thread at most
C15_ChiSquareRestoresCycle ==
    (op = "RNG.chi_square" /\ StartedBefore <= 1) =>
        /\ (frames[1].pc = "chi_sample" /\ frames[1].stopped) => ~CycleAlive
        /\ (Idle /\ ret.tag = "ok") =>
               /\ frames[1].stopped => (rng.is_cycling /\ CycleAlive)
               /\ ~frames[1].stopped => (~rng.is_cycling /\ ~CycleAlive)
        /\ (Idle /\ ret.tag # "ok") => (rng.is_cycling <=> CycleAlive)

(***************************************************************************)
(* C16: after cycle(), whenever stop_cycle() has returned, is_cycling is   *)
(* False and every thread started so far has left its loop, so that none   *)
(* writes _cur again; cycle() may have been called any number of times.    *)
(***************************************************************************)
C16_StopCycleJoinsEveryThread ==
    (op = "RNG.stop_cycle" /\ Idle /\ ret = PyNone) =>
        /\ ~rng.is_cycling
        /\ \A i \in 1..Len(threads) : ~IsAlive(i)

\* a call of stop_cycle that has a thread to join returns
StopCycleReturns == (frames[1].pc = "join") ~> Idle

(***************************************************************************)
(* C17: a pay schedule shorter than the largest match count that can be    *)
(* reached is never silently truncated: a call of ScatterPay, LinePay or   *)
(* WinWays that counts more matches than the schedule has entries, and a   *)
(* call of ScatterPay.payback or LinePay.payback for reels that can show   *)
(* more matches than the schedule has entries, ends with an error and      *)
(* returns no value.                                                       *)
(***************************************************************************)
\* the most matches of symbol one slice of the reel can show
MostInSlice(reel, symbol) ==
    LET counts == {CountMatches(Reel_slice(reel, stop).val, symbol) :
                      stop \in 0..(Len(reel.symbols) - 1)}
    IN  IF counts = {} THEN 0 ELSE CHOOSE c \in counts : \A d \in counts : d <= c

\* the largest count a ScatterPay can meet on the reels from i on
RECURSIVE ScatterReach(_, _, _)
ScatterReach(reels, symbol, i) ==
    IF i > Len(reels) THEN 0
    ELSE MostInSlice(reels[i], symbol) + ScatterReach(reels, symbol, i + 1)

\* the longest run from the left a LinePay can meet on the reels from i on
RECURSIVE LineReach(_, _, _)
LineReach(reels, symbol, i) ==
    IF i > Len(reels) \/ CountMatches(reels[i].symbols, symbol) = 0 THEN 0
    ELSE 1 + LineReach(reels, symbol, i + 1)

\* the most matches the call in hand has to pay for
MatchesNeeded ==
    IF op = "ScatterPay.__call__" THEN ScatterCount(args[1], obj.symbol, 1)
    ELSE IF op = "LinePay.__call__"
    THEN LET lines == PySlice(obj.paylines, 0, args[2])
             runs == {LeadingMatches(LineSymbols(args[1], lines[k]),
                                     obj.symbol) : k \in 1..Len(lines)}
         IN  IF runs = {} THEN 0
             ELSE CHOOSE c \in runs : \A d \in runs : d <= c
    ELSE IF op = "WinWays.__call__"
    THEN WinWays_loop(args[1], obj.symbol, 1, 0, 1)[1]
    ELSE IF op = "ScatterPay.payback"
    THEN (IF Len(args[1]) = Len(args[2])
          THEN ScatterReach(args[2], obj.symbol, 1) ELSE 0)
    ELSE IF op = "LinePay.payback"
    THEN (IF Len(args[1]) = Len(args[2])
          THEN LineReach(args[2], obj.symbol, 1) ELSE 0)
    ELSE 0

C17_ShortScheduleIsAnError ==
    MatchesNeeded > Len(obj.pays) => ret.tag \notin {"ok", "None", "nocall"}

(***************************************************************************)
(* C19: calc_rtp reports exact line-win counts per rule: it returns, and   *)
(* the count of each rule is the number of stop combinations (one stop per *)
(* reel) whose line is paid by that rule under the highest-paying-rule     *)
(* policy (the earliest rule on ties), so that the counts sum to at most   *)
(* total_combos, the product of the reel lengths.                          *)
(***************************************************************************)
\* one stop per reel, counted from 1
ReelStops(reels) ==
    {st \in [1..Len(reels) -> 1..MaxPaybackLen] :
        \A i \in 1..Len(reels) : st[i] <= Len(reels[i].symbols)}

\* the physical symbols at the stops
LineAt(reels, st) == [i \in 1..Len(reels) |-> reels[i].symbols[st[i]]]

\* the stop combinations whose line is attributed to rule k
Attributed(rules, reels, k) ==
    Cardinality({st \in ReelStops(reels) :
                    HighestWinner(rules, LineAt(reels, st)).paid_rule = k})

\* the count calc_rtp returned for rule k
RuleCount(payback, k) ==
    IF k \in DOMAIN payback.rules THEN payback.rules[k] ELSE 0

\* the counts of the rules up to k added up
RECURSIVE SumCounts(_, _)
SumCounts(payback, k) ==
    IF k = 0 THEN 0 ELSE SumCounts(payback, k - 1) + RuleCount(payback, k)

C19_CalcRtpCountsAreExact ==
    op = "calc_rtp" =>
        /\ ret.tag = "ok"
        /\ ret.val.total_combos = TotalCombos(args[1], Len(args[1]))
        /\ \A k \in 1..Len(obj.rules) :
               RuleCount(ret.val, k) = Attributed(obj.rules, args[1], k)
        /\ SumCounts(ret.val, Len(obj.rules)) <= ret.val.total_combos

=============================================================================
